---- MODULE Spec2Model ----
(***************************************************************************)
(* The retrieval pipeline of chat-docs-backend: the SSE decoder, the MCP   *)
(* search client, the URL selector, the content fetcher, the composer and  *)
(* the /chat orchestrator (src/server.js; the serverless handler in        *)
(* src/unnamed/part_000 carries the same functions).                       *)
(*                                                                         *)
(* Representation of JavaScript values:                                    *)
(*   - a string that the code splits on '\n' is a non-empty sequence of    *)
(*     lines; the empty string is the single empty line;                   *)
(*   - a line is a record [p, r]: p is the marker the code tests with      *)
(*     startsWith (or "" when the line starts with none of them) and r is  *)
(*     the rest of the line, a sequence of character tokens;               *)
(*   - every value carries its JavaScript type in the field t; an object   *)
(*     holds a function f whose DOMAIN is its set of keys.                 *)
(***************************************************************************)
EXTENDS Integers, Sequences, FiniteSets, TLC

VARIABLES
    pc,             \* position of the request in the handler
    entry,          \* "server" (app.post('/chat')) or "handler" (exports.handler)
    method,         \* HTTP method of the request
    message,        \* req.body.message ("" when missing or empty)
    rpcStep,        \* id of the next MCP request of searchCerebrasDocs (1..3)
    initData,       \* decoded response of the initialize request
    toolsData,      \* decoded response of the tools/list request
    searchData,     \* decoded query response (for the record of the run)
    searchResults,  \* result of searchCerebrasDocs
    searchItems,    \* items parsed by analyzeSearchResults
    urlsText,       \* outcome of the selector's model call
    relevantUrls,   \* result of analyzeSearchResults
    fpc,            \* position inside fetchFullContent: "none", "loop", "returned"
    furls,          \* argument of fetchFullContent
    fidx,           \* index of the URL the loop of fetchFullContent is at
    fouts,          \* outcome of each axios.get so far
    contents,       \* the contents array of fetchFullContent
    fullContent,    \* result of fetchFullContent
    fullContext,    \* the handler's local fullContext
    context,        \* context argument of the call of getCerebrasResponse
    systemPrompt,   \* system prompt built by getCerebrasResponse
    composeOut,     \* outcome of the composer's model call
    response,       \* the HTTP response emitted
    calls,          \* outbound calls completed so far, in order
    awaiting,       \* the invocation is suspended at an await of a call
    pending,        \* outbound calls issued and not yet completed
    parked,         \* locals of the other invocations the process is serving
    sseIn,          \* decoder harness: input of parseSSEResponse
    sseOut          \* decoder harness: what parseSSEResponse did

vars == <<pc, entry, method, message, rpcStep, initData, toolsData, searchData,
          searchResults,
          searchItems, urlsText, relevantUrls, fpc, furls, fidx, fouts,
          contents, fullContent, fullContext, context, systemPrompt, composeOut,
          response, calls, awaiting, pending, parked, sseIn, sseOut>>

----------------------------------------------------------------------------
(* Bounds of the model *)

MaxSseLines == 3     \* lines of a decoder input
MaxItems == 2        \* entries of result.content in a query response
MaxRawReply == 2     \* tokens of an arbitrary selector reply
MaxFetchUrls == 3    \* URLs of an argument of fetchFullContent taken alone
MaxParseLines == 4   \* lines of a search text parsed alone

----------------------------------------------------------------------------
(* JavaScript values *)

JNull == [t |-> "null"]
JUndefined == [t |-> "undefined"]
JStr(ls) == [t |-> "string", lines |-> ls]
JArr(xs) == [t |-> "array", xs |-> xs]
JObj(f) == [t |-> "object", f |-> f]
NoFields == [k \in {} |-> JNull]

Line(p, r) == [p |-> p, r |-> r]
EmptyLine == Line("", <<>>)
EmptyStr == JStr(<<EmptyLine>>)

\* JavaScript truthiness: null, undefined and "" are falsy; arrays and
\* objects (empty ones too) and non-empty strings are truthy
Truthy(v) ==
    /\ v.t \notin {"null", "undefined"}
    /\ v.t = "string" => v.lines # <<EmptyLine>>

\* property read o.k that the code guards with &&: undefined when missing
Get(o, k) == IF o.t = "object" /\ k \in DOMAIN o.f THEN o.f[k] ELSE JUndefined

RECURSIVE JoinLines(_, _)
\* Array.prototype.join on an array of strings (each a sequence of lines)
\* with a separator of the shape '\n' + sep lines + '\n'; the join of the
\* empty array is the empty string
JoinLines(strs, sep) ==
    IF strs = <<>> THEN <<EmptyLine>>
    ELSE IF Len(strs) = 1 THEN strs[1]
    ELSE strs[1] \o sep \o JoinLines(Tail(strs), sep)

\* all sequences over S of length at most n
SeqsUpTo(S, n) == UNION {[1..k -> S] : k \in 0..n}

----------------------------------------------------------------------------
(* parseSSEResponse *)

\* the rest of an SSE line after its marker: empty, or one document that is
\* well-formed JSON (with the value it denotes) or is not
JsonText(v) == <<[wf |-> TRUE, val |-> v]>>
BadJson == <<[wf |-> FALSE, val |-> JUndefined]>>

\* JSON.parse: [threw, val]
JSONparse(r) ==
    IF r = <<>> \/ ~r[1].wf THEN [threw |-> TRUE, val |-> JUndefined]
    ELSE [threw |-> FALSE, val |-> r[1].val]

RECURSIVE ScanLinesStopAtFirst(_)
\* faulty variant of the loop: gives up at the first data line that does not
\* parse instead of going on to the next line
ScanLinesStopAtFirst(ls) ==
    IF ls = <<>> THEN [raised |-> FALSE, val |-> JNull]
    ELSE IF Head(ls).p = "data: "
         THEN IF JSONparse(Head(ls).r).threw
              THEN [raised |-> FALSE, val |-> JNull]
              ELSE [raised |-> FALSE, val |-> JSONparse(Head(ls).r).val]
         ELSE ScanLinesStopAtFirst(Tail(ls))

RECURSIVE ScanLines(_)
\* the for loop of parseSSEResponse: a data line that parses returns its
\* value; one that does not is logged and the loop goes on; null at the end
ScanLines(ls) ==
    IF ls = <<>> THEN [raised |-> FALSE, val |-> JNull]
    ELSE IF Head(ls).p = "data: "
         THEN IF JSONparse(Head(ls).r).threw
              THEN ScanLines(Tail(ls))
              ELSE [raised |-> FALSE, val |-> JSONparse(Head(ls).r).val]
         ELSE ScanLines(Tail(ls))

\* parseSSEResponse(sseData): [raised, val]
parseSSEResponse(sseData) ==
    IF ~Truthy(sseData) \/ sseData.t # "string"
    THEN [raised |-> FALSE, val |-> JNull]
    ELSE ScanLines(sseData.lines)

----------------------------------------------------------------------------
(* searchCerebrasDocs *)

Word(w) == JStr(<<Line("", <<w>>)>>)

\* "No relevant documentation found for your query."
Sentinel == Word("No relevant documentation found for your query.")

\* the lines that the separator '\n\n---\n\n' puts between two texts
TextSep == <<EmptyLine, Line("", <<"---">>), EmptyLine>>

\* texts of result entries as the search tool writes them
TextA == << Line("Title:", <<" ", "A">>),
            Line("Link:", <<" ", "u1">>),
            Line("Content:", <<" ", "about", " ", "A">>) >>
TextB == << Line("Title:", <<" ", "B">>),
            Line("Link:", <<" ", "u2">>) >>
ItemTexts == {TextA, TextB}

\* entries of result.content: textual ones, a textual one with empty text,
\* a non-textual one, and a null entry
ContentItems ==
    {JObj([type |-> Word("text"), text |-> JStr(t)]) : t \in ItemTexts}
    \cup {JObj([type |-> Word("text"), text |-> EmptyStr]),
          JObj([type |-> Word("image")]),
          JNull}

\* values a query response can decode to
QueryValues ==
    {JNull,
     JObj(NoFields),
     JObj([error |-> Word("bad request")]),
     JObj([result |-> JObj(NoFields)]),
     JObj([result |-> JObj([content |-> Word("text")])])}
    \cup {JObj([result |-> JObj([content |-> JArr(xs)])]) :
             xs \in SeqsUpTo(ContentItems, MaxItems)}

\* bodies of a query response that arrived without transport error: a body
\* that is no string (axios decoded it), the empty body, one data line, and
\* a malformed data line followed by a good one
QueryBodies ==
    {JObj(NoFields), EmptyStr,
     JStr(<<Line("event: ", <<>>), Line("data: ", BadJson)>>)}
    \cup {JStr(<<Line("event: ", <<>>), Line("data: ", JsonText(v))>>) :
             v \in QueryValues}
    \cup {JStr(<<Line("data: ", BadJson), Line("data: ", JsonText(v))>>) :
             v \in QueryValues}

\* lines 108-122: what the try block returns from the decoded query
\* response, or the TypeError that reading item.type of a null entry raises
ExtractText(sd) ==
    LET found == Get(Get(sd, "result"), "content") IN
    IF Truthy(sd) /\ Truthy(Get(sd, "result"))
       /\ Truthy(found) /\ found.t = "array"
    THEN IF \E i \in 1..Len(found.xs) : found.xs[i].t \in {"null", "undefined"}
         THEN [threw |-> TRUE, val |-> JUndefined]
         ELSE LET kept == SelectSeq(found.xs, LAMBDA item :
                              Get(item, "type") = Word("text")
                              /\ Truthy(Get(item, "text")))
                  texts == [i \in 1..Len(kept) |-> Get(kept[i], "text").lines]
              IN [threw |-> FALSE, val |-> JStr(JoinLines(texts, TextSep))]
    ELSE [threw |-> FALSE, val |-> Sentinel]

\* the value searchCerebrasDocs returns once the query response has arrived:
\* the catch block turns anything raised into null
SearchReturn(body) ==
    LET d == parseSSEResponse(body) IN
    IF d.raised THEN JNull
    ELSE IF ExtractText(d.val).threw THEN JNull ELSE ExtractText(d.val).val

----------------------------------------------------------------------------
(* analyzeSearchResults *)

MaxSel == 3          \* urls.slice(0, 3)

IsSpace(c) == c \in {" ", "\n"}

RECURSIVE TrimLeft(_)
TrimLeft(r) == IF r # <<>> /\ IsSpace(Head(r)) THEN TrimLeft(Tail(r)) ELSE r

RECURSIVE TrimRight(_)
TrimRight(r) ==
    IF r # <<>> /\ IsSpace(r[Len(r)]) THEN TrimRight(SubSeq(r, 1, Len(r) - 1)) ELSE r

\* String.prototype.trim
Trim(r) == TrimRight(TrimLeft(r))

\* faulty variant: a field that is already there is kept
SetFieldKeepFirst(obj, k, v) ==
    [x \in DOMAIN obj \cup {k} |-> IF x \in DOMAIN obj THEN obj[x] ELSE v]

\* obj.k = v on an object given by its function of fields
SetField(obj, k, v) ==
    [x \in DOMAIN obj \cup {k} |-> IF x = k THEN v ELSE obj[x]]

\* faulty variant: the accumulator is pushed whether it has a title or not
HasTitleAlways(item) == TRUE

\* if (currentItem.title): the field is there and is not ""
HasTitle(item) == "title" \in DOMAIN item /\ item["title"] # <<>>

RECURSIVE ScanItems(_, _, _)
\* lines 141-153: the scan of the lines with the accumulator currentItem
ScanItems(ls, currentItem, items) ==
    IF ls = <<>>
    THEN IF HasTitle(currentItem) THEN Append(items, currentItem) ELSE items
    ELSE LET line == Head(ls) IN
         IF line.p = "Title:"
         THEN ScanItems(Tail(ls), [title |-> Trim(line.r)],
                        IF HasTitle(currentItem) THEN Append(items, currentItem)
                        ELSE items)
         ELSE IF line.p = "Link:"
         THEN ScanItems(Tail(ls), SetField(currentItem, "link", Trim(line.r)), items)
         ELSE IF line.p = "Content:"
         THEN ScanItems(Tail(ls), SetField(currentItem, "content", Trim(line.r)), items)
         ELSE ScanItems(Tail(ls), currentItem, items)

\* lines 139-153; searchResults.split raises on a value that is no string
ParseItems(text) ==
    IF text.t # "string" THEN [threw |-> TRUE, items |-> <<>>]
    ELSE [threw |-> FALSE, items |-> ScanItems(text.lines, NoFields, <<>>)]

\* tokens of a model reply: brackets, comma, white space, a word of prose,
\* and the string literals "u1" .. "u4"
StrLits == {"u1", "u2", "u3", "u4"}

\* urlsText.match(/\[.*\]/s): from the first '[' to the last ']' after it
\* (the quantifier is greedy and the s flag lets it cross lines); <<>> is
\* "no match"
BracketMatch(toks) ==
    LET opens == {i \in 1..Len(toks) : toks[i] = "["}
        first == CHOOSE i \in opens : \A j \in opens : i <= j
        closes == IF opens = {} THEN {}
                  ELSE {j \in 1..Len(toks) : toks[j] = "]" /\ j > first}
        last == CHOOSE j \in closes : \A k \in closes : k <= j
    IN IF closes = {} THEN <<>> ELSE SubSeq(toks, first, last)

RECURSIVE ParseArrayFrom(_, _, _, _)
\* the array production of JSON.parse from position i, after '[' (st =
\* "open"), after an element ("value") or after a comma ("comma"); a nested
\* array is one element, written "<array>"
ParseArrayFrom(toks, i, acc, st) ==
    IF i > Len(toks) THEN [ok |-> FALSE, xs |-> <<>>, next |-> i]
    ELSE LET tk == toks[i] IN
         IF st \in {"open", "comma"} /\ tk \in StrLits
         THEN ParseArrayFrom(toks, i + 1, Append(acc, tk), "value")
         ELSE IF st \in {"open", "comma"} /\ tk = "["
         THEN LET sub == ParseArrayFrom(toks, i + 1, <<>>, "open") IN
              IF sub.ok
              THEN ParseArrayFrom(toks, sub.next, Append(acc, "<array>"), "value")
              ELSE [ok |-> FALSE, xs |-> <<>>, next |-> i]
         ELSE IF st \in {"open", "value"} /\ tk = "]"
         THEN [ok |-> TRUE, xs |-> acc, next |-> i + 1]
         ELSE IF st = "value" /\ tk = ","
         THEN ParseArrayFrom(toks, i + 1, acc, "comma")
         ELSE [ok |-> FALSE, xs |-> <<>>, next |-> i]

\* JSON.parse of a token sequence (white space between tokens is skipped):
\* [threw, isArray, xs]
JSONparseTokens(toks) ==
    LET ts == SelectSeq(toks, LAMBDA c : ~IsSpace(c))
        bad == [threw |-> TRUE, isArray |-> FALSE, xs |-> <<>>]
    IN IF ts = <<>> THEN bad
       ELSE IF Len(ts) = 1 /\ ts[1] \in StrLits
       THEN [threw |-> FALSE, isArray |-> FALSE, xs |-> <<>>]
       ELSE IF ts[1] = "["
       THEN LET a == ParseArrayFrom(ts, 2, <<>>, "open") IN
            IF a.ok /\ a.next = Len(ts) + 1
            THEN [threw |-> FALSE, isArray |-> TRUE, xs |-> a.xs]
            ELSE bad
       ELSE bad

\* urls.slice(0, 3)
Slice3(xs) == SubSeq(xs, 1, IF Len(xs) < MaxSel THEN Len(xs) ELSE MaxSel)

\* faulty variant: the array is returned without the slice
ExtractUrlsNoSlice(toks) ==
    LET jsonMatch == BracketMatch(Trim(toks)) IN
    IF jsonMatch = <<>> THEN <<>>
    ELSE LET urls == JSONparseTokens(jsonMatch) IN
         IF urls.threw THEN <<>>
         ELSE IF urls.isArray THEN urls.xs ELSE <<>>

\* lines 188-202: from the reply text to the URLs returned
ExtractUrls(toks) ==
    LET jsonMatch == BracketMatch(Trim(toks)) IN
    IF jsonMatch = <<>> THEN <<>>
    ELSE LET urls == JSONparseTokens(jsonMatch) IN
         IF urls.threw THEN <<>>
         ELSE IF urls.isArray THEN Slice3(urls.xs) ELSE <<>>

\* outcomes of cerebrasClient.chat.completions.create in the selector
SelError == [kind |-> "error", toks |-> <<>>]
SelNoChoices == [kind |-> "nochoices", toks |-> <<>>]
SelReply(toks) == [kind |-> "reply", toks |-> toks]

\* faulty variant: no outer try/catch, so a rejected model call and the
\* TypeError of reading choices[0] of a reply without choices are raised
AnalyzeNoOuterCatch(text, outcome) ==
    IF ParseItems(text).threw \/ outcome.kind # "reply"
    THEN [raised |-> TRUE, called |-> ~ParseItems(text).threw, urls |-> <<>>]
    ELSE [raised |-> FALSE, called |-> TRUE, urls |-> ExtractUrls(outcome.toks)]

\* analyzeSearchResults(userQuery, text) when the model call ends with
\* outcome: [raised, called, urls]. The outer catch (lines 203-206) turns
\* what split raises on a text that is no string, a rejected model call and
\* the TypeError of reading choices[0] of a reply without choices into [].
AnalyzeSearchResults(text, outcome) ==
    IF ParseItems(text).threw
    THEN [raised |-> FALSE, called |-> FALSE, urls |-> <<>>]
    ELSE IF outcome.kind # "reply"
    THEN [raised |-> FALSE, called |-> TRUE, urls |-> <<>>]
    ELSE [raised |-> FALSE, called |-> TRUE, urls |-> ExtractUrls(outcome.toks)]

ReplyAlphabet == {"[", "]", ",", " ", "prose", "u1"}
RawReplies == SeqsUpTo(ReplyAlphabet, MaxRawReply)

UrlAt(i) == <<"u1", "u2", "u3", "u4">>[i]
ArrayBodies ==
    SeqsUpTo({"u1", "u2"}, 2) \cup {[i \in 1..n |-> UrlAt(i)] : n \in MaxSel..(MaxSel + 1)}

RECURSIVE CommaList(_)
CommaList(xs) ==
    IF xs = <<>> THEN <<>>
    ELSE IF Len(xs) = 1 THEN xs
    ELSE <<Head(xs), ",", " ">> \o CommaList(Tail(xs))

ArrayTokens(xs) == <<"[">> \o CommaList(xs) \o <<"]">>

\* replies that hold a well-formed array: alone, inside prose, and followed
\* by a second bracketed group
ArrayReplies ==
    {ArrayTokens(b) : b \in ArrayBodies}
    \cup {<<"prose", " ">> \o ArrayTokens(b) \o <<" ", "prose">> : b \in ArrayBodies}
    \cup {ArrayTokens(b) \o <<" ", "[", "prose", "]">> : b \in ArrayBodies}

SelectorOutcomes ==
    {SelError, SelNoChoices} \cup {SelReply(t) : t \in RawReplies \cup ArrayReplies}

----------------------------------------------------------------------------
(* fetchFullContent *)

ContentCap == 10000  \* content.substring(0, 10000)

RECURSIVE StripTags(_)
\* replace(/<[^>]*>/g, ' '): each '<' that has a '>' after it is replaced,
\* with everything up to the nearest such '>', by one space
StripTags(cs) ==
    IF cs = <<>> THEN <<>>
    ELSE IF Head(cs) = "<" /\ \E j \in 2..Len(cs) : cs[j] = ">"
    THEN LET close == CHOOSE j \in 2..Len(cs) :
                         cs[j] = ">" /\ \A k \in 2..(j - 1) : cs[k] # ">"
         IN <<" ">> \o StripTags(SubSeq(cs, close + 1, Len(cs)))
    ELSE <<Head(cs)>> \o StripTags(Tail(cs))

RECURSIVE CollapseSpace(_)
\* replace(/\s+/g, ' '): each run of white space becomes one space
CollapseSpace(cs) ==
    IF cs = <<>> THEN <<>>
    ELSE IF IsSpace(Head(cs))
    THEN <<" ">> \o CollapseSpace(TrimLeft(cs))
    ELSE <<Head(cs)>> \o CollapseSpace(Tail(cs))

\* a token of a body is one character, except Block, which stands for
\* BlockLen letters x in a row; Pad is what a block leaves of the cap
Block == "xxx..."
BlockLen == 9990
Pad == ContentCap - BlockLen
Xs(n) == [i \in 1..n |-> "x"]
Width(c) == IF c = Block THEN BlockLen ELSE 1

RECURSIVE Substring(_, _)
\* substring(0, n): the first n characters; of a block that the cut falls
\* in, the letters before the cut
Substring(cs, n) ==
    IF cs = <<>> \/ n <= 0 THEN <<>>
    ELSE IF Width(Head(cs)) <= n
    THEN <<Head(cs)>> \o Substring(Tail(cs), n - Width(Head(cs)))
    ELSE Xs(n)

\* outcomes of axios.get(url): a failure, or the body of the response
FetchFail == [ok |-> FALSE, data |-> JUndefined]
FetchBody(d) == [ok |-> TRUE, data |-> d]

\* bodies: a page of markup, a JSON document and the empty body
PageBody == JStr(<<Line("", <<"<", "p", ">", "a", " ", "\n", "b", "<", "/", "p", ">">>)>>)
JsonBody == JObj(NoFields)
FetchOutcomes == {FetchFail, FetchBody(EmptyStr), FetchBody(PageBody), FetchBody(JsonBody)}

\* bodies longer than the cap, or as long: markup around the text, markup
\* and white space at the cut, two blocks, and a tag with a block inside
LongPage(r) == JStr(<<Line("", r)>>)
LongPages ==
    {LongPage(<<"<", "p", ">", Block>> \o Xs(Pad - 1) \o <<"<", "/", "p", ">">>),
     LongPage(<<Block>> \o Xs(Pad - 2) \o <<"<", "b", ">", "a">>),
     LongPage(<<Block>> \o Xs(Pad - 1) \o <<" ", "\n", "a">>),
     LongPage(<<"a", Block, Block>>),
     LongPage(<<Block>> \o Xs(Pad - 2) \o <<">", "<", "a">>),
     LongPage(<<"<", Block, ">", " ", " ", "a">>)}

\* JSON documents: one with a long text, one with markup and white space
TextDoc(r) == JObj([k |-> JStr(<<Line("", r)>>)])
LongDoc == TextDoc(<<Block>> \o Xs(Pad - 1))
MarkupDoc == TextDoc(<<"<", "b", ">", " ", " ">>)
LongOutcomes ==
    FetchOutcomes \cup {FetchBody(d) : d \in LongPages \cup {LongDoc, MarkupDoc}}

\* JSON.stringify of a body that is no string: {} or {"k":"..."} (the
\* texts of the documents above need no escape)
Stringify(d) ==
    IF d = JsonBody THEN <<"{", "}">>
    ELSE IF d.t = "object" /\ DOMAIN d.f = {"k"}
    THEN <<"{", "\"", "k", "\"", ":", "\"">> \o d.f.k.lines[1].r \o <<"\"", "}">>
    ELSE <<"null">>

\* faulty variant: the body is cut before the markup is taken out
CleanContentCapFirst(d) ==
    IF d.t = "string"
    THEN CollapseSpace(StripTags(Substring(d.lines[1].r, ContentCap)))
    ELSE Substring(Stringify(d), ContentCap)

\* lines 227-232: the text kept of a body (a body of one line)
CleanContent(d) ==
    Substring(IF d.t = "string"
              THEN CollapseSpace(StripTags(d.lines[1].r))
              ELSE Stringify(d),
              ContentCap)

\* `\n\n=== Content from ${url} ===\n${content}\n`
Wrapped(url, content) ==
    << EmptyLine, EmptyLine,
       Line("=== Content from ", <<url, " ===">>),
       Line("", content),
       EmptyLine >>

\* the lines that the separator '\n---\n' puts between two entries
EntrySep == <<Line("", <<"---">>)>>

\* faulty variant: the entry is put in front of the earlier ones
PushContentFront(cont, url, out) ==
    IF out.ok /\ Truthy(out.data)
    THEN <<Wrapped(url, CleanContent(out.data))>> \o cont
    ELSE cont

\* lines 225-235: the contents array after the response for url
PushContent(cont, url, out) ==
    IF out.ok /\ Truthy(out.data)
    THEN Append(cont, Wrapped(url, CleanContent(out.data)))
    ELSE cont

\* faulty variant: an empty result is returned as the empty string
FetchResultEmptyString(cont) == JStr(JoinLines(cont, EntrySep))

\* line 241
FetchResult(cont) ==
    IF Len(cont) > 0 THEN JStr(JoinLines(cont, EntrySep)) ELSE JNull

----------------------------------------------------------------------------
(* getCerebrasResponse *)

\* lines 251-257: the system prompt: the persona, then the grounding
\* instruction around the context or the disclosure instruction
\* (which of its three parts the prompt holds, and the context embedded)
NoPrompt ==
    [persona |-> FALSE, grounding |-> FALSE, disclosure |-> FALSE,
     context |-> JNull]

\* faulty variant: the disclosure instruction is appended without the else
BuildPromptNoElse(ctx) ==
    [persona |-> TRUE, grounding |-> Truthy(ctx), disclosure |-> TRUE,
     context |-> IF Truthy(ctx) THEN ctx ELSE JNull]

BuildPrompt(ctx) ==
    IF Truthy(ctx)
    THEN [persona |-> TRUE, grounding |-> TRUE, disclosure |-> FALSE,
          context |-> ctx]
    ELSE [persona |-> TRUE, grounding |-> FALSE, disclosure |-> TRUE,
          context |-> JNull]

\* outcomes of cerebrasClient.chat.completions.create in the composer: a
\* completion with an answer, a completion without choices, a rejection
\* with an error message (given by the words it contains)
CompAnswer == [kind |-> "answer", words |-> {}]
CompNoChoices == [kind |-> "nochoices", words |-> {}]
CompError(ws) == [kind |-> "error", words |-> ws]
ComposerOutcomes ==
    {CompAnswer, CompNoChoices}
    \cup {CompError(ws) : ws \in {{"401"}, {"model"}, {"401", "model"}, {"timeout"}}}

\* lines 275-285: what getCerebrasResponse does with the outcome:
\* [threw, message, answer]
ComposerResult(out) ==
    IF out.kind = "answer"
    THEN [threw |-> FALSE, words |-> {}, answer |-> <<"answer">>]
    ELSE IF out.kind = "nochoices"
    THEN [threw |-> TRUE, words |-> {"Invalid response from Cerebras API"},
          answer |-> <<>>]
    ELSE [threw |-> TRUE, words |-> out.words, answer |-> <<>>]

----------------------------------------------------------------------------
(* The request handlers: app.post('/chat') and exports.handler *)

Entries == {"server", "handler"}
Methods == {"POST", "OPTIONS", "GET"}
Messages == {"", "q1"}

\* an outbound call: what was called, with what, and whether it completed
\* without error
Call(op, arg, ok) == [op |-> op, arg |-> arg, ok |-> ok]

NoResponse == [status |-> 0, body |-> NoFields]
Resp(status, body) == [status |-> status, body |-> body]

\* res.status(status).json(body) and res.json(body) of app.post('/chat')
ServerReply(status, body) == Resp(status, body)

\* faulty variant: the status of the catch block is left out
HandlerReplyAlwaysOk(status, body) == Resp(200, body)

\* { statusCode, headers, body: JSON.stringify(body) } of exports.handler
HandlerReply(status, body) == Resp(status, body)

Reply(status, body) ==
    IF entry = "server" THEN ServerReply(status, body)
    ELSE HandlerReply(status, body)

\* the texts of the catch block; a text made by += is the sequence of its
\* parts
Apology == "I apologize, but I encountered an error. "
KeyGuidance == "Please check that your Cerebras API key is valid."
ModelGuidance == "There might be an issue with the model selection."
GenericGuidance ==
    "Please try again later or check the server logs for more details."

\* faulty variant: the two tests of error.message in the other order
ErrorMessageModelFirst(words) ==
    IF "model" \in words THEN <<Apology, ModelGuidance>>
    ELSE IF "401" \in words THEN <<Apology, KeyGuidance>>
    ELSE <<Apology, GenericGuidance>>

\* the errorMessage of the catch block, chosen by error.message.includes
ErrorMessage(words) ==
    IF "401" \in words THEN <<Apology, KeyGuidance>>
    ELSE IF "model" \in words THEN <<Apology, ModelGuidance>>
    ELSE <<Apology, GenericGuidance>>

\* the state in which nothing of a request has happened yet
Blank ==
    /\ method = "" /\ message = ""
    /\ rpcStep = 0
    /\ initData = JUndefined /\ toolsData = JUndefined
    /\ searchData = JUndefined /\ searchResults = JUndefined
    /\ searchItems = <<>> /\ urlsText = [kind |-> "none", toks |-> <<>>]
    /\ relevantUrls = <<>>
    /\ fidx = 0 /\ fouts = <<>> /\ contents = <<>>
    /\ fullContent = JUndefined /\ fullContext = JUndefined
    /\ context = JUndefined
    /\ systemPrompt = NoPrompt
    /\ composeOut = [kind |-> "none", words |-> {}]
    /\ response = NoResponse
    /\ calls = <<>>
    /\ awaiting = FALSE /\ pending = <<>>

NoDecoderRun ==
    /\ sseIn = JUndefined
    /\ sseOut = [ran |-> FALSE, raised |-> FALSE, val |-> JUndefined]

Init ==
    /\ pc = "idle"
    /\ entry \in Entries
    /\ fpc = "none" /\ furls = <<>>
    /\ Blank
    /\ parked = <<>>
    /\ NoDecoderRun

\* the body of the request: a JSON object, where message is its field of
\* that name or "" without one, or no body at all. express.json() hands the
\* server endpoint an object in req.body; the handler calls
\* JSON.parse(event.body) itself (line 306 of part_000, inside the try):
\* without a body the destructuring of its result raises a TypeError, whose
\* message holds neither "401" nor "model", and the catch block answers
\* with status 500
Bodies == {"json", "none"}

\* the catch block of lines 329-347: the response to an error with the
\* given words in its message
ErrorResponse(words) ==
    Reply(500, [error |-> "Failed to process request",
                response |-> ErrorMessage(words)])

\* a request with one of the messages msgs arrives: the method check of
\* exports.handler (app.post is reached by POST requests only) and the check
\* of the message
Arrive(msgs) ==
    /\ pc = "idle"
    /\ \E m \in Methods, b \in Bodies, msg \in msgs :
        /\ entry = "server" => m = "POST" /\ b = "json"
        /\ b = "none" => msg = ""
        /\ method' = m
        /\ message' = msg
        /\ IF m = "OPTIONS"
           THEN /\ response' = Reply(200, NoFields)
                /\ pc' = "done" /\ rpcStep' = rpcStep
           ELSE IF m # "POST"
           THEN /\ response' = Reply(405, [error |-> "Method not allowed"])
                /\ pc' = "done" /\ rpcStep' = rpcStep
           ELSE IF b = "none"
           THEN /\ response' = ErrorResponse({})
                /\ pc' = "done" /\ rpcStep' = rpcStep
           ELSE IF msg = ""
           THEN /\ response' = Reply(400, [error |-> "Message is required"])
                /\ pc' = "done" /\ rpcStep' = rpcStep
           ELSE /\ response' = response
                /\ pc' = "search" /\ rpcStep' = 1
    /\ UNCHANGED <<entry, initData, toolsData, searchData, searchResults,
                   searchItems, urlsText,
                   relevantUrls, fpc, furls, fidx, fouts, contents, fullContent,
                   fullContext, context, systemPrompt, composeOut, calls,
                   awaiting, pending, parked, sseIn, sseOut>>

Receive == Arrive(Messages)

\* faulty variant: the request leaves and the function goes on without
\* waiting for it
SuspendNever == awaiting' = FALSE

\* await: the function is suspended until the call it issued is settled
Suspend == awaiting' = TRUE

\* the user's message as the request carries it: the query of the search
\* request (line 93) and the user turn of the two model calls (lines 180 and
\* 267); the other requests carry none
Payload(op, arg) ==
    IF op = "llm" \/ (op = "mcp" /\ arg = "3") THEN message ELSE ""

\* an outbound request leaves: axios.post, axios.get or
\* cerebrasClient.chat.completions.create under await
Send(op, arg) ==
    /\ ~awaiting
    /\ pending' = Append(pending, [op |-> op, arg |-> arg, q |-> Payload(op, arg)])
    /\ Suspend

\* the call the function waits for is settled and the function resumes
Settled(op) ==
    /\ awaiting
    /\ pending # <<>> /\ Head(pending).op = op
    /\ pending' = Tail(pending)
    /\ awaiting' = FALSE

SendFrame ==
    UNCHANGED <<pc, entry, method, message, rpcStep, initData, toolsData,
                   searchData, searchResults,
                searchItems, urlsText, relevantUrls, fpc, furls, fidx, fouts,
                contents, fullContent, fullContext, composeOut, response,
                calls, parked, sseIn, sseOut>>

\* faulty variant: no shortcut, the selection runs whatever the search gave
AfterSearchAlwaysSelect(sr) ==
    /\ searchResults' = sr
    /\ pc' = "select"

\* faulty variant: only a null result takes the shortcut
AfterSearchNullOnly(sr) ==
    /\ searchResults' = sr
    /\ pc' = IF sr = JNull THEN "composeNull" ELSE "select"

\* lines 300-306 once searchCerebrasDocs has returned sr
AfterSearch(sr) ==
    /\ searchResults' = sr
    /\ pc' = IF ~Truthy(sr) THEN "composeNull" ELSE "select"

SearchFrame ==
    UNCHANGED <<entry, method, message, searchItems, urlsText, relevantUrls,
                fpc, furls, fidx, fouts, contents, fullContent, fullContext,
                context, systemPrompt, composeOut, response, parked, sseIn,
                sseOut>>

\* the id of the JSON-RPC request at each step of searchCerebrasDocs
RpcId(k) == <<"1", "2", "3">>[k]

\* lines 46-60, 70-84, 87-101: the request of the current step leaves
SendMcp ==
    /\ pc = "search" /\ rpcStep \in 1..3
    /\ Send("mcp", RpcId(rpcStep))
    /\ UNCHANGED <<context, systemPrompt>>
    /\ SendFrame

\* values the response of the initialize request can decode to
HandshakeValues ==
    {JNull,
     JObj([error |-> Word("bad request")]),
     JObj([result |-> JObj([protocolVersion |-> Word("2024-11-05")])])}

\* a tools list with the tools of the given names
ToolsList(names) ==
    JObj([result |-> JObj([tools |->
        JArr([i \in 1..Len(names) |-> JObj([name |-> Word(names[i])])])])])

\* values the response of the tools/list request can decode to
DiscoveryValues ==
    {JNull,
     JObj([error |-> Word("bad request")]),
     ToolsList(<<>>), ToolsList(<<"fetch">>), ToolsList(<<"search">>)}

\* bodies of a response that arrived without transport error and decodes to
\* one of the given values: one data line; and bodies that decode to null: a
\* body that is no string, the empty body, a malformed data line
BodiesOf(values) ==
    {JObj(NoFields), EmptyStr,
     JStr(<<Line("event: ", <<>>), Line("data: ", BadJson)>>)}
    \cup {JStr(<<Line("event: ", <<>>), Line("data: ", JsonText(v))>>) :
             v \in values}

\* the bodies that the initialize and the tools/list request get when the
\* rest of the handler is looked at
UsualHandshake ==
    {JStr(<<Line("event: ", <<>>),
            Line("data: ", JsonText(JObj([result |->
                JObj([protocolVersion |-> Word("2024-11-05")])])))>>)}
UsualDiscovery ==
    {JStr(<<Line("event: ", <<>>),
            Line("data: ", JsonText(ToolsList(<<"search">>)))>>)}

\* faulty variant: a failure of the initialize request is swallowed and the
\* search goes on with the next request
McpInitializeGoesOn ==
    /\ pc = "search" /\ rpcStep = 1
    /\ Settled("mcp")
    /\ \E ok \in BOOLEAN : calls' = Append(calls, Call("mcp", "1", ok))
    /\ rpcStep' = 2
    /\ UNCHANGED <<pc, searchResults, initData, toolsData, searchData>>
    /\ SearchFrame

\* lines 46-67: the initialize request (id 1) with a response among bodies;
\* the response is decoded and logged only
McpInitializeFrom(bodies) ==
    /\ pc = "search" /\ rpcStep = 1
    /\ Settled("mcp")
    /\ \/ \E body \in bodies :
             /\ calls' = Append(calls, Call("mcp", "1", TRUE))
             /\ initData' = parseSSEResponse(body).val
             /\ IF parseSSEResponse(body).raised
                THEN AfterSearch(JNull) /\ UNCHANGED rpcStep
                ELSE rpcStep' = 2 /\ UNCHANGED <<pc, searchResults>>
       \/ /\ calls' = Append(calls, Call("mcp", "1", FALSE))
          /\ AfterSearch(JNull)
          /\ UNCHANGED <<rpcStep, initData>>
    /\ UNCHANGED <<toolsData, searchData>>
    /\ SearchFrame

McpInitialize == McpInitializeFrom(UsualHandshake)

\* faulty variant: the query is given up when the tools list does not name
\* the tool 'search'
McpToolsListGated(bodies) ==
    /\ pc = "search" /\ rpcStep = 2
    /\ Settled("mcp")
    /\ \/ \E body \in bodies :
             /\ calls' = Append(calls, Call("mcp", "2", TRUE))
             /\ toolsData' = parseSSEResponse(body).val
             /\ IF parseSSEResponse(body).val # ToolsList(<<"search">>)
                THEN AfterSearch(JNull) /\ UNCHANGED rpcStep
                ELSE rpcStep' = 3 /\ UNCHANGED <<pc, searchResults>>
       \/ /\ calls' = Append(calls, Call("mcp", "2", FALSE))
          /\ AfterSearch(JNull)
          /\ UNCHANGED <<rpcStep, toolsData>>
    /\ UNCHANGED <<initData, searchData>>
    /\ SearchFrame

\* lines 70-84: the tools/list request (id 2) with a response among bodies;
\* the response is decoded and logged only
McpToolsListFrom(bodies) ==
    /\ pc = "search" /\ rpcStep = 2
    /\ Settled("mcp")
    /\ \/ \E body \in bodies :
             /\ calls' = Append(calls, Call("mcp", "2", TRUE))
             /\ toolsData' = parseSSEResponse(body).val
             /\ IF parseSSEResponse(body).raised
                THEN AfterSearch(JNull) /\ UNCHANGED rpcStep
                ELSE rpcStep' = 3 /\ UNCHANGED <<pc, searchResults>>
       \/ /\ calls' = Append(calls, Call("mcp", "2", FALSE))
          /\ AfterSearch(JNull)
          /\ UNCHANGED <<rpcStep, toolsData>>
    /\ UNCHANGED <<initData, searchData>>
    /\ SearchFrame

McpToolsList == McpToolsListFrom(UsualDiscovery)

\* lines 87-132: the tools/call request (id 3) and the extraction of the text
McpToolsCall ==
    /\ pc = "search" /\ rpcStep = 3
    /\ Settled("mcp")
    /\ \/ \E body \in QueryBodies :
             /\ calls' = Append(calls, Call("mcp", "3", TRUE))
             /\ searchData' = parseSSEResponse(body).val
             /\ AfterSearch(SearchReturn(body))
       \/ /\ calls' = Append(calls, Call("mcp", "3", FALSE))
          /\ AfterSearch(JNull)
          /\ UNCHANGED searchData
    /\ UNCHANGED <<rpcStep, initData, toolsData>>
    /\ SearchFrame

\* lines 138-183: analyzeSearchResults parses the items and its request to
\* the model leaves
SendSelect ==
    /\ pc = "select"
    /\ ~ParseItems(searchResults).threw
    /\ Send("llm", "select")
    /\ UNCHANGED <<context, systemPrompt>>
    /\ SendFrame

\* lines 310-316: analyzeSearchResults, then the default of fullContext and
\* the decision to fetch
SelectPages ==
    /\ pc = "select"
    /\ IF ParseItems(searchResults).threw
       THEN ~awaiting /\ UNCHANGED <<awaiting, pending>>
       ELSE Settled("llm")
    /\ \E out \in SelectorOutcomes :
        LET a == AnalyzeSearchResults(searchResults, out) IN
        /\ searchItems' = ParseItems(searchResults).items
        /\ urlsText' = out
        /\ calls' = IF a.called
                    THEN Append(calls, Call("llm", "select", out.kind = "reply"))
                    ELSE calls
        /\ relevantUrls' = a.urls
        /\ IF a.raised
           THEN /\ response' = ErrorResponse({})
                /\ pc' = "done"
                /\ UNCHANGED <<fullContext, fpc, furls, fidx>>
           ELSE /\ fullContext' = searchResults
                /\ response' = response
                /\ IF Len(a.urls) > 0
                   THEN /\ pc' = "fetch"
                        /\ fpc' = "loop" /\ furls' = a.urls /\ fidx' = 1
                   ELSE /\ pc' = "compose"
                        /\ UNCHANGED <<fpc, furls, fidx>>
    /\ UNCHANGED <<entry, method, message, rpcStep, initData, toolsData,
                   searchData, searchResults,
                   fouts, contents, fullContent, context, systemPrompt,
                   composeOut, parked, sseIn, sseOut>>

\* lines 214-219: the request for the URL the loop is at leaves
SendGet ==
    /\ fpc = "loop" /\ fidx >= 1 /\ fidx <= Len(furls)
    /\ Send("get", furls[fidx])
    /\ UNCHANGED <<context, systemPrompt>>
    /\ SendFrame

\* lines 214-239: one turn of the loop of fetchFullContent
FetchOneFrom(outs) ==
    /\ fpc = "loop" /\ fidx >= 1 /\ fidx <= Len(furls)
    /\ Settled("get")
    /\ \E out \in outs :
        /\ calls' = Append(calls, Call("get", furls[fidx], out.ok))
        /\ fouts' = Append(fouts, out)
        /\ contents' = PushContent(contents, furls[fidx], out)
    /\ fidx' = fidx + 1
    /\ UNCHANGED <<pc, entry, method, message, rpcStep, initData, toolsData,
                   searchData, searchResults,
                   searchItems, urlsText, relevantUrls, fpc, furls, fullContent,
                   fullContext, context, systemPrompt, composeOut, response,
                   parked, sseIn, sseOut>>

FetchOne == FetchOneFrom(FetchOutcomes)

\* faulty variant: the result of the fetcher is taken whatever it is
AfterFetchNoFallback(fc) ==
    IF pc = "fetch"
    THEN /\ fullContext' = fc
         /\ pc' = "compose"
    ELSE UNCHANGED <<fullContext, pc>>

\* lines 317-319 once fetchFullContent has returned fc
AfterFetch(fc) ==
    IF pc = "fetch"
    THEN /\ fullContext' = IF Truthy(fc) THEN fc ELSE fullContext
         /\ pc' = "compose"
    ELSE UNCHANGED <<fullContext, pc>>

\* line 241: the loop is over and fetchFullContent returns
FetchReturn ==
    /\ fpc = "loop" /\ fidx >= 1 /\ fidx > Len(furls)
    /\ ~awaiting
    /\ fullContent' = FetchResult(contents)
    /\ fpc' = "returned"
    /\ AfterFetch(FetchResult(contents))
    /\ UNCHANGED <<entry, method, message, rpcStep, initData, toolsData,
                   searchData, searchResults,
                   searchItems, urlsText, relevantUrls, furls, fidx, fouts,
                   contents, context, systemPrompt, composeOut, response, calls,
                   awaiting, pending, parked, sseIn, sseOut>>

\* faulty variant: the composer is always called without context
ComposeArgNull == JNull

\* the context argument of the call of getCerebrasResponse: null at line
\* 304, fullContext at line 325
ComposeArg == IF pc = "composeNull" THEN JNull ELSE fullContext

\* lines 304 and 325 with lines 249-273: getCerebrasResponse is called,
\* builds its prompt, and its request to the model leaves
SendCompose ==
    /\ pc \in {"composeNull", "compose"}
    /\ context' = ComposeArg
    /\ systemPrompt' = BuildPrompt(ComposeArg)
    /\ Send("llm", "compose")
    /\ SendFrame

\* faulty variant: no catch block, a composer that throws ends the handler
\* without an answer
ComposeNoCatch ==
    /\ pc \in {"composeNull", "compose"}
    /\ Settled("llm")
    /\ \E out \in ComposerOutcomes :
        LET r == ComposerResult(out) IN
        /\ composeOut' = out
        /\ calls' = Append(calls, Call("llm", "compose", out.kind # "error"))
        /\ response' = IF r.threw THEN response
                       ELSE Reply(200, [response |-> r.answer])
        /\ pc' = IF r.threw THEN "lost" ELSE "done"
    /\ UNCHANGED <<entry, method, message, rpcStep, initData, toolsData,
                   searchData, searchResults,
                   searchItems, urlsText, relevantUrls, fpc, furls, fidx, fouts,
                   contents, fullContent, fullContext, context, systemPrompt,
                   parked, sseIn, sseOut>>

\* lines 275-285, 305 and 327, and the catch block of lines 329-347
Compose ==
    /\ pc \in {"composeNull", "compose"}
    /\ Settled("llm")
    /\ \E out \in ComposerOutcomes :
        LET r == ComposerResult(out) IN
        /\ composeOut' = out
        /\ calls' = Append(calls, Call("llm", "compose", out.kind # "error"))
        /\ response' = IF r.threw THEN ErrorResponse(r.words)
                       ELSE Reply(200, [response |-> r.answer])
    /\ pc' = "done"
    /\ UNCHANGED <<entry, method, message, rpcStep, initData, toolsData,
                   searchData, searchResults,
                   searchItems, urlsText, relevantUrls, fpc, furls, fidx, fouts,
                   contents, fullContent, fullContext, context, systemPrompt,
                   parked, sseIn, sseOut>>

Next ==
    \/ Receive
    \/ SendMcp
    \/ McpInitialize
    \/ McpToolsList
    \/ McpToolsCall
    \/ SendSelect
    \/ SelectPages
    \/ SendGet
    \/ FetchOne
    \/ FetchReturn
    \/ SendCompose
    \/ Compose

Spec == Init /\ [][Next]_vars

----------------------------------------------------------------------------
(* parseSSEResponse taken alone *)

\* lines of a response body: other lines, a line 'data:' without the space,
\* and data lines whose rest is empty, malformed, or one of three documents
SseLines ==
    {EmptyLine,
     Line("event: ", <<>>),
     Line("data:", JsonText(Word("a"))),
     Line("data: ", <<>>),
     Line("data: ", BadJson),
     Line("data: ", JsonText(Word("a"))),
     Line("data: ", JsonText(Word("b"))),
     Line("data: ", JsonText(JNull))}

SseInputs ==
    {JUndefined, JNull, JObj(NoFields)}
    \cup {JStr(ls) : ls \in SeqsUpTo(SseLines, MaxSseLines) \ {<<>>}}

InitDecoder ==
    /\ pc = "off"
    /\ entry = "server"
    /\ fpc = "none" /\ furls = <<>>
    /\ Blank
    /\ parked = <<>>
    /\ sseIn \in SseInputs
    /\ sseOut = [ran |-> FALSE, raised |-> FALSE, val |-> JUndefined]

\* one call parseSSEResponse(sseIn)
Decode ==
    /\ ~sseOut.ran
    /\ sseOut' = [ran |-> TRUE,
                  raised |-> parseSSEResponse(sseIn).raised,
                  val |-> parseSSEResponse(sseIn).val]
    /\ UNCHANGED <<pc, entry, method, message, rpcStep, initData, toolsData,
                   searchData, searchResults,
                   searchItems, urlsText, relevantUrls, fpc, furls, fidx, fouts,
                   contents, fullContent, fullContext, context, systemPrompt,
                   composeOut, response, calls, awaiting, pending, parked,
                   sseIn>>

NextDecoder == Decode

SpecDecoder == InitDecoder /\ [][NextDecoder]_vars

----------------------------------------------------------------------------
(* fetchFullContent taken alone *)

InitFetcher ==
    /\ pc = "off"
    /\ entry = "server"
    /\ fpc = "loop"
    /\ furls \in SeqsUpTo({"u1", "u2"}, MaxFetchUrls)
    /\ Blank
    /\ parked = <<>>
    /\ NoDecoderRun

\* the call fetchFullContent(furls) starts with the loop at the first URL
StartFetch ==
    /\ fpc = "loop" /\ fidx = 0
    /\ fidx' = 1
    /\ UNCHANGED <<pc, entry, method, message, rpcStep, initData, toolsData,
                   searchData, searchResults,
                   searchItems, urlsText, relevantUrls, fpc, furls, fouts,
                   contents, fullContent, fullContext, context, systemPrompt,
                   composeOut, response, calls, awaiting, pending, parked,
                   sseIn, sseOut>>

NextFetcher == StartFetch \/ SendGet \/ FetchOne \/ FetchReturn

SpecFetcher == InitFetcher /\ [][NextFetcher]_vars

----------------------------------------------------------------------------
(* fetchFullContent with bodies that reach the cap of an entry *)

InitNormalize ==
    /\ pc = "off"
    /\ entry = "server"
    /\ fpc = "loop"
    /\ furls \in {<<"u1">>, <<"u2", "u1">>}
    /\ Blank
    /\ parked = <<>>
    /\ NoDecoderRun

NextNormalize ==
    StartFetch \/ SendGet \/ FetchOneFrom(LongOutcomes) \/ FetchReturn

SpecNormalize == InitNormalize /\ [][NextNormalize]_vars

----------------------------------------------------------------------------
(* searchCerebrasDocs with every response of the handshake and of the
   discovery; the run ends when the function returns *)

NextSearch ==
    \/ Receive
    \/ SendMcp
    \/ McpInitializeFrom(BodiesOf(HandshakeValues))
    \/ McpToolsListFrom(BodiesOf(DiscoveryValues))
    \/ McpToolsCall

SpecSearch == Init /\ [][NextSearch]_vars

----------------------------------------------------------------------------
(* The parsing of the search text by analyzeSearchResults taken alone *)

\* lines of a search text: two titles, a title that is blank after 'Title:',
\* two links, a content and a line with none of the markers
ParserLines ==
    {Line("Title:", <<" ", "A">>),
     Line("Title:", <<" ", "B">>),
     Line("Title:", <<" ">>),
     Line("Link:", <<" ", "u1">>),
     Line("Link:", <<" ", "u2">>),
     Line("Content:", <<" ", "c">>),
     Line("", <<"x">>)}

InitParser ==
    /\ pc = "off"
    /\ entry = "server"
    /\ fpc = "none" /\ furls = <<>>
    /\ method = "" /\ message = ""
    /\ rpcStep = 0
    /\ initData = JUndefined /\ toolsData = JUndefined
    /\ searchData = JUndefined
    /\ searchResults \in
          {JStr(ls) : ls \in SeqsUpTo(ParserLines, MaxParseLines) \ {<<>>}}
    /\ searchItems = <<>> /\ urlsText = [kind |-> "none", toks |-> <<>>]
    /\ relevantUrls = <<>>
    /\ fidx = 0 /\ fouts = <<>> /\ contents = <<>>
    /\ fullContent = JUndefined /\ fullContext = JUndefined
    /\ context = JUndefined
    /\ systemPrompt = NoPrompt
    /\ composeOut = [kind |-> "none", words |-> {}]
    /\ response = NoResponse
    /\ calls = <<>>
    /\ awaiting = FALSE /\ pending = <<>>
    /\ parked = <<>>
    /\ NoDecoderRun

\* lines 139-153 on searchResults
Parse ==
    /\ pc = "off"
    /\ searchItems' = ParseItems(searchResults).items
    /\ pc' = "parsed"
    /\ UNCHANGED <<entry, method, message, rpcStep, initData, toolsData,
                   searchData, searchResults,
                   urlsText, relevantUrls, fpc, furls, fidx, fouts, contents,
                   fullContent, fullContext, context, systemPrompt,
                   composeOut, response, calls, awaiting, pending, parked,
                   sseIn, sseOut>>

NextParser == Parse

SpecParser == InitParser /\ [][NextParser]_vars

----------------------------------------------------------------------------
(* Two invocations in flight together *)

\* what an invocation owns: the parameters and local variables of the
\* handler and of the functions it calls, and the position it is at
Locals ==
    [pc |-> pc, entry |-> entry, method |-> method, message |-> message,
     rpcStep |-> rpcStep, initData |-> initData, toolsData |-> toolsData,
     searchData |-> searchData,
     searchResults |-> searchResults, searchItems |-> searchItems,
     urlsText |-> urlsText, relevantUrls |-> relevantUrls, fpc |-> fpc,
     furls |-> furls, fidx |-> fidx, fouts |-> fouts, contents |-> contents,
     fullContent |-> fullContent, fullContext |-> fullContext,
     context |-> context, systemPrompt |-> systemPrompt,
     composeOut |-> composeOut, response |-> response, calls |-> calls,
     awaiting |-> awaiting, pending |-> pending]

\* faulty variant: the position in the search protocol is kept in a
\* variable of the module
ResumeStepShared(l) == rpcStep' = rpcStep

\* the requests of searchCerebrasDocs are numbered by literals in the body of
\* the function (lines 57, 74, 96)
ResumeStep(l) == rpcStep' = l.rpcStep

\* the invocation with the locals l goes on where it was
Resume(l) ==
    /\ pc' = l.pc /\ entry' = l.entry /\ method' = l.method
    /\ message' = l.message
    /\ ResumeStep(l)
    /\ initData' = l.initData /\ toolsData' = l.toolsData
    /\ searchData' = l.searchData /\ searchResults' = l.searchResults
    /\ searchItems' = l.searchItems /\ urlsText' = l.urlsText
    /\ relevantUrls' = l.relevantUrls /\ fpc' = l.fpc /\ furls' = l.furls
    /\ fidx' = l.fidx /\ fouts' = l.fouts /\ contents' = l.contents
    /\ fullContent' = l.fullContent /\ fullContext' = l.fullContext
    /\ context' = l.context /\ systemPrompt' = l.systemPrompt
    /\ composeOut' = l.composeOut /\ response' = l.response
    /\ calls' = l.calls /\ awaiting' = l.awaiting /\ pending' = l.pending

\* the invocation that runs has not arrived yet, waits at an await, or has
\* answered: another one runs
Switch ==
    /\ pc \in {"idle", "done"} \/ awaiting
    /\ \E i \in 1..Len(parked) :
        /\ parked' = [parked EXCEPT ![i] = Locals]
        /\ Resume(parked[i])
    /\ UNCHANGED <<sseIn, sseOut>>

\* a query response with one item
OneItemReply ==
    JObj([result |-> JObj([content |->
        JArr(<<JObj([type |-> Word("text"), text |-> JStr(TextA)])>>)])])

\* POST requests and outcomes enough to take every branch of the handler: a
\* search that fails or gives an item; a selection that fails, names no URL
\* or names one; a fetch that fails or gives a page; a composition that
\* succeeds or fails
FewOutcomes ==
    /\ method \in {"", "POST"}
    /\ searchData \in {JUndefined, OneItemReply}
    /\ searchResults \in {JUndefined, JNull, JStr(TextA)}
    /\ \/ urlsText.kind \in {"none", "error"}
       \/ /\ urlsText.kind = "reply"
          /\ urlsText.toks \in {<<"prose">>, ArrayTokens(<<"u1">>)}
    /\ \A i \in 1..Len(fouts) : fouts[i] \in {FetchFail, FetchBody(PageBody)}
    /\ composeOut \in {[kind |-> "none", words |-> {}], CompAnswer,
                        CompError({"401"})}

InitConcurrent ==
    /\ pc = "idle"
    /\ entry \in Entries
    /\ fpc = "none" /\ furls = <<>>
    /\ Blank
    /\ \E e \in Entries :
          parked = <<[pc |-> "idle", entry |-> e, method |-> "", message |-> "",
                      rpcStep |-> 0, initData |-> JUndefined,
                      toolsData |-> JUndefined, searchData |-> JUndefined,
                      searchResults |-> JUndefined, searchItems |-> <<>>,
                      urlsText |-> [kind |-> "none", toks |-> <<>>],
                      relevantUrls |-> <<>>, fpc |-> "none", furls |-> <<>>,
                      fidx |-> 0, fouts |-> <<>>, contents |-> <<>>,
                      fullContent |-> JUndefined, fullContext |-> JUndefined,
                      context |-> JUndefined, systemPrompt |-> NoPrompt,
                      composeOut |-> [kind |-> "none", words |-> {}],
                      response |-> NoResponse, calls |-> <<>>,
                      awaiting |-> FALSE, pending |-> <<>>]>>
    /\ NoDecoderRun

\* with two invocations the messages may differ
MessagesOfTwo == {"", "q1", "q2"}

NextConcurrent ==
    \/ Arrive(MessagesOfTwo) /\ FewOutcomes'
    \/ SendMcp
    \/ McpInitialize /\ FewOutcomes'
    \/ McpToolsList /\ FewOutcomes'
    \/ McpToolsCall /\ FewOutcomes'
    \/ SendSelect
    \/ SelectPages /\ FewOutcomes'
    \/ SendGet
    \/ FetchOne /\ FewOutcomes'
    \/ FetchReturn
    \/ SendCompose
    \/ Compose /\ FewOutcomes'
    \/ Switch

SpecConcurrent == InitConcurrent /\ [][NextConcurrent]_vars

----------------------------------------------------------------------------
(* One request whose outbound calls are all settled in the end *)

\* a query response whose one item has an empty text
EmptyTextReply ==
    JObj([result |-> JObj([content |->
        JArr(<<JObj([type |-> Word("text"), text |-> EmptyStr])>>)])])

\* outcomes enough to take every branch of the two handlers: a search that
\* fails, decodes to null, or gives an item or an item without text; a
\* selection that fails, has no choices, names no URL, one URL or three;
\* a fetch that fails, gives an empty body or a page; a composition that
\* succeeds, has no choices or fails
EveryBranch ==
    /\ searchData \in {JUndefined, JNull, OneItemReply, EmptyTextReply}
    /\ \/ urlsText.kind \in {"none", "error", "nochoices"}
       \/ /\ urlsText.kind = "reply"
          /\ urlsText.toks \in {<<"prose">>, ArrayTokens(<<"u1">>),
                                ArrayTokens(<<"u1", "u2", "u3">>)}
    /\ \A i \in 1..Len(fouts) :
          fouts[i] \in {FetchFail, FetchBody(EmptyStr), FetchBody(PageBody)}
    /\ composeOut \in {[kind |-> "none", words |-> {}], CompAnswer,
                        CompNoChoices, CompError({"401"})}

\* the steps of a request that has been received: the continuations that
\* the event loop runs and the settlements of the outbound calls
Progress ==
    \/ SendMcp
    \/ McpInitialize /\ EveryBranch'
    \/ McpToolsList /\ EveryBranch'
    \/ McpToolsCall /\ EveryBranch'
    \/ SendSelect
    \/ SelectPages /\ EveryBranch'
    \/ SendGet
    \/ FetchOne /\ EveryBranch'
    \/ FetchReturn
    \/ SendCompose
    \/ Compose /\ EveryBranch'

NextLive == Receive \/ Progress

\* every outbound call is settled in the end and the handler then goes on
SpecLive == Init /\ [][NextLive]_vars /\ WF_vars(Progress)

----------------------------------------------------------------------------
(* Properties *)

\* the composer has been invoked
Composed == composeOut.kind # "none"

\* the selector has returned
Selected == urlsText.kind # "none"

CallsOf(op, arg) == {i \in 1..Len(calls) : calls[i].op = op /\ calls[i].arg = arg}
GetCalls == {i \in 1..Len(calls) : calls[i].op = "get"}
SelectCalls == CallsOf("llm", "select")
ComposeCalls == CallsOf("llm", "compose")
FailedMcpCalls == {i \in 1..Len(calls) : calls[i].op = "mcp" /\ ~calls[i].ok}

\* the fetches so far that gave a body with content, in order, and the
\* entries they stand for
Fetched(urls) ==
    SelectSeq([i \in 1..Len(fouts) |-> [url |-> urls[i], out |-> fouts[i]]],
              LAMBDA e : e.out.ok /\ Truthy(e.out.data))
EntriesOf(urls) ==
    LET got == Fetched(urls) IN
    [i \in 1..Len(got) |-> Wrapped(got[i].url, CleanContent(got[i].out.data))]

\* C1: when the search text is non-absent, the selection is non-empty and
\* every fetch of a selected URL fails, the composer's context is exactly
\* the search text, neither absent nor empty.
C1_FallbackToSummaries ==
    (/\ Composed
     /\ searchResults.t = "string"
     /\ Len(relevantUrls) > 0
     /\ Len(fouts) = Len(relevantUrls)
     /\ \A i \in 1..Len(fouts) : ~fouts[i].ok)
    => /\ fullContent = JNull
       /\ context = searchResults
       /\ context # JNull
       /\ context # EmptyStr

C1_Witness ==
    /\ Composed
    /\ searchResults.t = "string"
    /\ Len(relevantUrls) >= 2
    /\ Len(fouts) = Len(relevantUrls)
    /\ \A i \in 1..Len(fouts) : ~fouts[i].ok
    /\ context = searchResults

\* C2: when the search client returns absent, the selector and the fetcher
\* are never invoked, the composer is invoked once, with absent context and
\* the disclosure instruction in its prompt, and a composer that succeeds
\* gives status 200.
C2_SearchAbsentShortcut ==
    searchResults = JNull
    => /\ SelectCalls = {} /\ ~Selected
       /\ GetCalls = {} /\ fpc = "none"
       /\ pc \in {"composeNull", "done"}
       /\ pc = "composeNull" => ComposeCalls = {}
       /\ pc = "done"
          => /\ Cardinality(ComposeCalls) = 1
             /\ context = JNull
             /\ systemPrompt.disclosure /\ ~systemPrompt.grounding
             /\ composeOut.kind = "answer" => response.status = 200

C2_Witness ==
    /\ searchResults = JNull
    /\ FailedMcpCalls # {}
    /\ pc = "done"
    /\ systemPrompt.disclosure /\ ~systemPrompt.grounding
    /\ response.status = 200

\* C3: a request with a message ends with status 500 exactly when the
\* composer's model call is rejected or returns no choices, whatever failed
\* in the search, the selection and the fetches; otherwise it ends with
\* status 200 and the composer's answer.
C3_OnlyCompositionFails ==
    (pc = "done" /\ method = "POST" /\ message # "")
    => /\ Composed
       /\ response.status \in {200, 500}
       /\ response.status = 500 <=> composeOut.kind \in {"error", "nochoices"}
       /\ response.status = 200 => response.body = [response |-> <<"answer">>]

C3_Witness ==
    /\ pc = "done"
    /\ response.status = 200
    /\ urlsText.kind = "reply"
    /\ \E i \in GetCalls : ~calls[i].ok
    /\ \E i \in GetCalls : calls[i].ok

\* the three requests of the search client completed without transport error
TransportOk ==
    /\ CallsOf("mcp", "3") # {}
    /\ FailedMcpCalls = {}

\* C4: the pipeline treats the search result as absent only after a
\* transport error; when the three calls complete, the result is non-absent
\* text, whatever the query response decodes to, and the selection runs.
C4_AbsentOnlyOnTransportError ==
    /\ pc = "composeNull" => FailedMcpCalls # {}
    /\ TransportOk
       => /\ searchResults.t = "string"
          /\ Truthy(searchResults)
          /\ pc # "composeNull"
          /\ Composed => Selected /\ context # JNull

\* the first data line of a decoder input, and the first one that parses
DataLines(ls) == {i \in 1..Len(ls) : ls[i].p = "data: "}
GoodLines(ls) == {i \in DataLines(ls) : ~JSONparse(ls[i].r).threw}
Least(S) == CHOOSE i \in S : \A j \in S : i <= j
IsDecodable(v) == v.t = "string" /\ v # EmptyStr

\* C5 as stated: the decoder never raises; it returns the value of the first
\* data line when that line parses, and absent when the input is no string
\* or is empty, has no data line, or its first data line is malformed.
C5_FirstDataLineDecides ==
    sseOut.ran
    => /\ ~sseOut.raised
       /\ sseOut.val =
            IF ~IsDecodable(sseIn) \/ DataLines(sseIn.lines) = {}
            THEN JNull
            ELSE LET first == sseIn.lines[Least(DataLines(sseIn.lines))] IN
                 IF JSONparse(first.r).threw THEN JNull
                 ELSE JSONparse(first.r).val

\* C5 as amended: the decoder never raises; it returns the value of the
\* first data line that parses, and absent when the input is no string or is
\* empty or no data line parses; lines after that line do not matter.
C5_FirstParsedDataLineWins ==
    sseOut.ran
    => /\ ~sseOut.raised
       /\ sseOut.val =
            IF ~IsDecodable(sseIn) \/ GoodLines(sseIn.lines) = {}
            THEN JNull
            ELSE JSONparse(sseIn.lines[Least(GoodLines(sseIn.lines))].r).val

C5_Witness ==
    /\ sseOut.ran
    /\ IsDecodable(sseIn)
    /\ Len(sseIn.lines) = 3
    /\ sseIn.lines[1] = Line("data: ", BadJson)
    /\ sseIn.lines[2] = Line("data: ", JsonText(Word("a")))
    /\ sseIn.lines[3] = Line("data: ", JsonText(Word("b")))
    /\ sseOut.val = Word("a")

\* a reply without a '[' that has a ']' after it
NoBracketed(toks) ==
    ~\E i, j \in 1..Len(toks) : i < j /\ toks[i] = "[" /\ toks[j] = "]"

\* C6: analyzeSearchResults never raises and returns at most 3 URLs; it
\* returns none when the model call fails or gives no choices, when the
\* reply has no bracketed substring, when that substring is not JSON, and
\* when it is no array.
C6_BoundedSelection ==
    Selected
    => /\ ~(pc = "done" /\ ~Composed)
       /\ Len(relevantUrls) <= MaxSel
       /\ urlsText.kind \in {"error", "nochoices"} => relevantUrls = <<>>
       /\ (urlsText.kind = "reply" /\ relevantUrls # <<>>)
          => /\ ~NoBracketed(urlsText.toks)
             /\ LET v == JSONparseTokens(BracketMatch(Trim(urlsText.toks))) IN
                ~v.threw /\ v.isArray

C6_Witness ==
    /\ Selected
    /\ urlsText = SelReply(<<"prose", " ">> \o ArrayTokens(<<"u1", "u2", "u3", "u4">>)
                           \o <<" ", "prose">>)
    /\ relevantUrls = <<"u1", "u2", "u3">>

\* C7 as stated: when the search client returns the sentinel, the selector
\* parses zero items, the selection is empty, no URL is fetched and the
\* composer gets the sentinel as its context, whatever the model replies.
C7_SentinelNeverFetches ==
    (searchResults = Sentinel /\ Selected)
    => /\ searchItems = <<>>
       /\ relevantUrls = <<>>
       /\ GetCalls = {}
       /\ Composed => context = Sentinel

\* C7 as amended: when the search client returns the sentinel, the selector
\* parses zero items; when the selection that the model's reply yields is
\* empty, no URL is fetched and the composer gets the sentinel as its
\* context.
C7_SentinelKeptOnEmptySelection ==
    (searchResults = Sentinel /\ Selected)
    => /\ searchItems = <<>>
       /\ relevantUrls = <<>>
          => /\ GetCalls = {}
             /\ fpc = "none"
             /\ Composed => context = Sentinel

C7_Witness ==
    /\ searchResults = Sentinel
    /\ urlsText = SelReply(<<"[", "]">>)
    /\ searchItems = <<>>
    /\ relevantUrls = <<>>
    /\ Composed
    /\ context = Sentinel

\* C8: when the fetcher returns non-absent text, the composer's context is
\* that text and not the search text: the wrapped entries of the URLs whose
\* fetch gave content, each under the header of its URL, in selection order.
C8_FetchedContextReplaces ==
    (Composed /\ fpc = "returned" /\ fullContent # JNull)
    => LET entries == EntriesOf(relevantUrls) IN
       /\ context = fullContent
       /\ context # searchResults
       /\ context = JStr(JoinLines(entries, EntrySep))
       /\ entries # <<>>

C8_Witness ==
    /\ Composed
    /\ relevantUrls = <<"u1", "u2", "u3">>
    /\ fouts = <<FetchBody(PageBody), FetchFail, FetchBody(JsonBody)>>
    /\ context = JStr(Wrapped("u1", <<" ", "a", " ", "b", " ">>)
                      \o EntrySep \o Wrapped("u3", <<"{", "}">>))

\* the URLs requested so far, in order
Requested == [i \in 1..Cardinality(GetCalls) |->
                 calls[CHOOSE k \in GetCalls :
                           Cardinality({j \in GetCalls : j <= k}) = i].arg]

\* C9 as stated: every URL of the list is requested, whatever failed before
\* it; the fetcher returns absent exactly when the list is empty or every
\* fetch failed, and otherwise the joined entries of the fetched URLs.
C9_AbsentIffAllFailed ==
    fpc = "returned"
    => /\ Requested = furls
       /\ fullContent = JNull
          <=> (furls = <<>> \/ \A i \in 1..Len(fouts) : ~fouts[i].ok)
       /\ fullContent # JNull
          => fullContent = JStr(JoinLines(EntriesOf(furls), EntrySep))

\* C9 as amended: every URL of the list is requested, whatever failed before
\* it; the fetcher returns absent exactly when no fetch gave a non-empty
\* body (the list is empty, or every fetch failed or gave an empty body),
\* and otherwise the joined entries, in input order, of the URLs whose fetch
\* gave a non-empty body.
C9_BatchSurvival ==
    fpc = "returned"
    => /\ Requested = furls
       /\ Len(fouts) = Len(furls)
       /\ fullContent = JNull
          <=> \A i \in 1..Len(fouts) : ~(fouts[i].ok /\ Truthy(fouts[i].data))
       /\ fullContent # JNull
          => fullContent = JStr(JoinLines(EntriesOf(furls), EntrySep))

C9_Witness ==
    /\ fpc = "returned"
    /\ furls = <<"u1", "u2", "u1">>
    /\ fouts = <<FetchFail, FetchBody(PageBody), FetchBody(EmptyStr)>>
    /\ fullContent = JStr(Wrapped("u2", <<" ", "a", " ", "b", " ">>))

\* C10: when the search text is non-absent and the selection comes out
\* empty, no URL is requested and the composer's context is exactly the
\* search text.
C10_EmptySelectionKeepsSummaries ==
    (Composed /\ searchResults.t = "string" /\ Selected /\ relevantUrls = <<>>)
    => /\ GetCalls = {}
       /\ fpc = "none"
       /\ context = searchResults

C10_Witness ==
    /\ Composed
    /\ searchResults = JStr(TextA)
    /\ urlsText = SelReply(<<"prose", " ">>)
    /\ relevantUrls = <<>>
    /\ GetCalls = {}
    /\ context = JStr(TextA)

\* the message of the error the composer raised contains the given text
ErrorHas(text) == composeOut.kind = "error" /\ text \in composeOut.words

\* C11: when the composition fails, the response has status 500 and its
\* response text is the apology followed by exactly one guidance, chosen in
\* this order: the guidance on the API key when the error message contains
\* "401", else the guidance on the model selection when it contains "model",
\* else the generic guidance.
C11_GuidanceByOrderedMatch ==
    (pc = "done" /\ Composed /\ composeOut.kind # "answer")
    => /\ response.status = 500
       /\ DOMAIN response.body = {"error", "response"}
       /\ Len(response.body.response) = 2
       /\ response.body.response[1] = Apology
       /\ response.body.response[2] =
            IF ErrorHas("401") THEN KeyGuidance
            ELSE IF ErrorHas("model") THEN ModelGuidance
            ELSE GenericGuidance

C11_Witness ==
    /\ pc = "done"
    /\ composeOut = CompError({"401", "model"})
    /\ response.status = 500
    /\ response.body.response = <<Apology, KeyGuidance>>

\* the outbound calls issued so far, in order: those completed, then those
\* still awaited
Issued ==
    [i \in 1..Len(calls) + Len(pending) |->
        IF i <= Len(calls)
        THEN [op |-> calls[i].op, arg |-> calls[i].arg]
        ELSE [op |-> pending[i - Len(calls)].op,
              arg |-> pending[i - Len(calls)].arg]]
McpIssued == SelectSeq(Issued, LAMBDA c : c.op = "mcp")
McpDone == SelectSeq(calls, LAMBDA c : c.op = "mcp")

\* C12: the search client issues its requests with ids 1, 2, 3 in this order,
\* each at most once, a request only after the one before it completed
\* without transport error; after a transport error at some step no further
\* request is issued, none is repeated, and the search returns absent.
C12_SearchOrderAndAbort ==
    LET sent == McpIssued
        done == McpDone
    IN /\ Len(sent) <= 3
       /\ \A i \in 1..Len(sent) : sent[i].arg = <<"1", "2", "3">>[i]
       /\ \A i \in 1..Len(done) :
             ~done[i].ok
             => /\ i = Len(sent)
                /\ searchResults = JNull
       /\ \A i \in 2..Len(sent) :
             /\ i - 1 <= Len(done)
             /\ done[i - 1].ok

C12_Witness ==
    /\ pc = "done"
    /\ McpDone = <<Call("mcp", "1", TRUE), Call("mcp", "2", FALSE)>>
    /\ McpIssued = <<[op |-> "mcp", arg |-> "1"], [op |-> "mcp", arg |-> "2"]>>
    /\ searchResults = JNull

\* the composer has been called and has built its prompt
PromptBuilt == systemPrompt.persona

\* C13: the system prompt of every composer invocation holds exactly one of
\* the grounding instruction and the disclosure instruction: the grounding
\* instruction, with the context embedded as it was passed, when the context
\* is present, and the disclosure instruction when the context is absent.
C13_GroundingXorDisclosure ==
    PromptBuilt
    => /\ systemPrompt.grounding # systemPrompt.disclosure
       /\ context # JNull
          => (systemPrompt.grounding /\ systemPrompt.context = context)
       /\ context = JNull => systemPrompt.disclosure

C13_Witness ==
    /\ PromptBuilt
    /\ context = JStr(TextA)
    /\ systemPrompt.grounding /\ ~systemPrompt.disclosure
    /\ systemPrompt.context = JStr(TextA)

\* the invocations in flight: the one that runs and those that wait
Invocations == <<Locals>> \o parked

\* what the world answered to an invocation: whether each of its calls
\* completed without error, and what the query, the selector's model call,
\* the fetches and the composer's model call gave
Outcomes(l) ==
    [ok |-> [i \in 1..Len(l.calls) |-> l.calls[i].ok],
     query |-> l.searchData,
     select |-> l.urlsText,
     fetch |-> l.fouts,
     compose |-> l.composeOut]

\* the invocation has answered a POST request that carried a message
Answered(l) == l.pc = "done" /\ l.method = "POST" /\ l.message # ""

McpIdsOf(l) ==
    LET done == SelectSeq(l.calls, LAMBDA c : c.op = "mcp")
        open == SelectSeq(l.pending, LAMBDA c : c.op = "mcp")
    IN [i \in 1..Len(done) |-> done[i].arg]
       \o [i \in 1..Len(open) |-> open[i].arg]

\* C15: with invocations in flight together, each numbers its own search
\* requests 1, 2, 3 whatever the others do, and its outbound calls, its
\* context and its response are determined by its own message and the
\* outcomes of its own calls: two invocations with the same message and the
\* same outcomes made the same calls, composed with the same context and
\* answered the same.
C15_RequestIsolation ==
    /\ \A i \in 1..Len(Invocations) :
          McpIdsOf(Invocations[i])
            = SubSeq(<<"1", "2", "3">>, 1, Len(McpIdsOf(Invocations[i])))
    /\ \A i, j \in 1..Len(Invocations) :
          LET a == Invocations[i]
              b == Invocations[j]
          IN (/\ i # j
              /\ Answered(a) /\ Answered(b)
              /\ a.message = b.message
              /\ Outcomes(a) = Outcomes(b))
             => /\ a.calls = b.calls
                /\ a.context = b.context
                /\ a.systemPrompt = b.systemPrompt
                /\ a.response.body = b.response.body

\* both invocations are in the middle of their search, at different steps,
\* with different messages
C15_Witness ==
    /\ pc = "search" /\ awaiting /\ McpIdsOf(Locals) = <<"1", "2">>
    /\ parked[1].pc = "search" /\ parked[1].awaiting
    /\ McpIdsOf(parked[1]) = <<"1", "2", "3">>
    /\ message = "q1" /\ parked[1].message = "q2"

\* C16: the answer to a POST request has a 2xx status and a body with a
\* response text when the request succeeded, and otherwise, the request
\* without a message included, a status outside 2xx and a body with both an
\* error text and a response text.
C16_ResponseShape ==
    (pc = "done" /\ method = "POST")
    => IF composeOut.kind = "answer"
       THEN /\ response.status \in 200..299
            /\ "response" \in DOMAIN response.body
       ELSE /\ response.status \notin 200..299
            /\ {"error", "response"} \subseteq DOMAIN response.body

\* the lines of the text parsed, the Title: lines among them and those whose
\* title is not blank
ParsedLines == searchResults.lines
TitleLines == {i \in 1..Len(ParsedLines) : ParsedLines[i].p = "Title:"}
NamedTitleLines == {i \in TitleLines : Trim(ParsedLines[i].r) # <<>>}

\* the lines after the Title: line t up to the next Title: line or the end
\* of the text
Span(t) ==
    {i \in t + 1..Len(ParsedLines) : \A j \in TitleLines : j > t => i < j}

Greatest(S) == CHOOSE i \in S : \A j \in S : j <= i

\* the item has the field exactly when a line with the marker lies in the
\* span of t, and then it has the trimmed rest of the last such line
FieldFrom(item, field, marker, t) ==
    LET at == {i \in Span(t) : ParsedLines[i].p = marker} IN
    IF at = {} THEN field \notin DOMAIN item
    ELSE /\ field \in DOMAIN item
         /\ item[field] = Trim(ParsedLines[Greatest(at)].r)

\* the items emitted are those started by the lines of starts, once each and
\* in their order, each with its title and the last link and content of its
\* span
ItemsStartAt(starts) ==
    /\ Len(searchItems) = Cardinality(starts)
    /\ \A t \in starts :
          LET item == searchItems[Cardinality({j \in starts : j <= t})] IN
          /\ DOMAIN item \subseteq {"title", "link", "content"}
          /\ item["title"] = Trim(ParsedLines[t].r)
          /\ FieldFrom(item, "link", "Link:", t)
          /\ FieldFrom(item, "content", "Content:", t)

\* C17 as stated: every Title: line starts exactly one item, emitted exactly
\* once and in order, with the last Link: and Content: line before the next
\* Title: line; lines before the first Title: line belong to no item.
C17_EveryTitleStartsAnItem ==
    pc = "parsed" => ItemsStartAt(TitleLines)

\* C17: every Title: line whose title is not blank starts exactly one item,
\* emitted exactly once and in order, with the last Link: and Content: line
\* before the next Title: line (blank or not); the lines that follow a blank
\* Title: line, like those before the first Title: line, belong to no item.
C17_NamedTitlesStartItems ==
    pc = "parsed" => ItemsStartAt(NamedTitleLines)

C17_Witness ==
    /\ pc = "parsed"
    /\ ParsedLines = <<Line("Title:", <<" ">>), Line("Link:", <<" ", "u1">>),
                       Line("Title:", <<" ", "A">>), Line("Link:", <<" ", "u2">>)>>
    /\ searchItems = <<[title |-> <<"A">>, link |-> <<"u2">>]>>

\* the number of tokens c among the first n tokens of toks
CountOf(toks, c, n) == Cardinality({i \in 1..n : toks[i] = c})

\* the first bracket-delimited part of toks: from the first '[' to the ']'
\* that closes it; <<>> when there is none
FirstBracketed(toks) ==
    LET opens == {i \in 1..Len(toks) : toks[i] = "["}
        first == Least(opens)
        closes == IF opens = {} THEN {}
                  ELSE {j \in first..Len(toks) :
                          /\ toks[j] = "]"
                          /\ CountOf(toks, "[", j) - CountOf(toks, "[", first - 1)
                             = CountOf(toks, "]", j) - CountOf(toks, "]", first - 1)}
    IN IF closes = {} THEN <<>> ELSE SubSeq(toks, first, Least(closes))

\* the first three elements of the list that the first bracket-delimited
\* part of toks parses to; nothing when there is no such part or no list
FirstListOf(toks) ==
    LET part == FirstBracketed(toks)
        list == JSONparseTokens(part)
    IN IF part = <<>> \/ list.threw \/ ~list.isArray THEN <<>>
       ELSE SubSeq(list.xs, 1, IF Len(list.xs) < 3 THEN Len(list.xs) ELSE 3)

\* C18: the selection is made of the first three elements of the list that
\* the first bracket-delimited part of the reply (from the first '[' to the
\* ']' that closes it) parses to; the text after that part, further brackets
\* included, does not change the selection.
C18_FirstBracketedDecides ==
    (Selected /\ urlsText.kind = "reply")
    => relevantUrls = FirstListOf(urlsText.toks)

\* the stage an outbound call belongs to: 1 search, 2 select, 3 fetch,
\* 4 compose
StageOf(c) ==
    IF c.op = "mcp" THEN 1
    ELSE IF c.op = "llm" /\ c.arg = "select" THEN 2
    ELSE IF c.op = "get" THEN 3
    ELSE 4
IssuedIn(stage) == {i \in 1..Len(Issued) : StageOf(Issued[i]) = stage}

\* the calls are issued stage after stage, a call only once the call before
\* it has completed, with one selection and one composition at most; the
\* selection follows a complete search, a fetch follows the selection, and
\* a run that has answered composed exactly once, with its last call
StagesInOrder ==
    /\ \A i, j \in 1..Len(Issued) :
          i < j => StageOf(Issued[i]) <= StageOf(Issued[j])
    /\ \A i \in 2..Len(Issued) : i - 1 <= Len(calls)
    /\ \A i, j \in IssuedIn(1) : Issued[i].arg = Issued[j].arg => i = j
    /\ Cardinality(IssuedIn(2)) <= 1
    /\ Cardinality(IssuedIn(3)) <= Len(relevantUrls)
    /\ Cardinality(IssuedIn(4)) <= 1
    /\ IssuedIn(2) # {}
       => /\ Len(McpDone) = 3
          /\ \A i \in 1..3 : McpDone[i].ok
    /\ IssuedIn(3) # {} => (IssuedIn(2) # {} /\ Selected)
    /\ (IssuedIn(4) # {} /\ IssuedIn(3) # {}) => fpc = "returned"
    /\ (pc = "done" /\ method = "POST" /\ message # "")
       => /\ pending = <<>>
          /\ Cardinality(IssuedIn(4)) = 1
          /\ StageOf(calls[Len(calls)]) = 4

\* C19: the stages run in the order search, select, fetch, compose, each at
\* most once and none before the one before it has returned; the selection
\* is skipped, from the search straight to the composition, only when the
\* search is absent; the composer is invoked exactly once, as the last
\* outbound call before the response.
C19_StageOrder ==
    /\ StagesInOrder
    /\ (IssuedIn(4) # {} /\ IssuedIn(2) = {}) => searchResults = JNull

\* C20: a request issues at most 8 outbound calls, 3 of the search, 1 of the
\* selection, at most 3 fetches and 1 of the composition; at most one call
\* is in flight at any time, and the fetch of a URL is issued only when the
\* fetches of the URLs before it have completed.
C20_RoundTripBound ==
    LET stages == [i \in 1..Len(calls) + Len(pending) |-> StageOf(Issued[i])]
        CountIn(stage) == Cardinality({i \in DOMAIN stages : stages[i] = stage})
        fetches == {i \in DOMAIN stages : stages[i] = 3}
    IN /\ Len(stages) <= 8
       /\ CountIn(1) <= 3
       /\ CountIn(2) <= 1
       /\ Cardinality(fetches) <= 3
       /\ CountIn(4) <= 1
       /\ Len(pending) <= 1
       /\ \A i, j \in fetches : j < i => j <= Len(calls)

\* the eighth call, the composition after three fetches, is in flight
C20_Witness ==
    /\ Len(Issued) = 8
    /\ Cardinality(IssuedIn(3)) = 3
    /\ Len(calls) = 7
    /\ pending = <<[op |-> "llm", arg |-> "compose", q |-> message]>>

\* C21: once the initialize and the tools/list request have completed
\* without transport error, the query request (id 3, the tool 'search') is
\* issued or is the next thing the search client does, whatever the two
\* responses decoded to: null, an error, a tools list without 'search'.
C21_HandshakeDoesNotGate ==
    LET done == McpDone
        sent == McpIssued
    IN (Len(done) >= 2 /\ done[1].ok /\ done[2].ok)
       => \/ Len(sent) = 3 /\ sent[3].arg = "3"
          \/ /\ pc = "search" /\ rpcStep = 3
             /\ ENABLED SendMcp

C21_Witness ==
    /\ initData = JNull
    /\ toolsData = ToolsList(<<"fetch">>)
    /\ pending = <<[op |-> "mcp", arg |-> "3", q |-> message]>>

----------------------------------------------------------------------------
(* C22 *)

\* the number of characters of a text
RECURSIVE Chars(_)
Chars(cs) == IF cs = <<>> THEN 0 ELSE Width(Head(cs)) + Chars(Tail(cs))

\* a '<' with a '>' somewhere after it
HasTag(cs) ==
    \E i \in 1..Len(cs) : \E j \in (i + 1)..Len(cs) : cs[i] = "<" /\ cs[j] = ">"

HasTwoSpaces(cs) ==
    \E i \in 1..(Len(cs) - 1) : IsSpace(cs[i]) /\ IsSpace(cs[i + 1])

\* c is made of the first characters of n: the same tokens, and then
\* possibly the first letters of a block of n
IsStartOf(c, n) ==
    \E k \in 0..Len(c) :
        /\ k <= Len(n)
        /\ SubSeq(c, 1, k) = SubSeq(n, 1, k)
        /\ k < Len(c) => /\ k < Len(n)
                         /\ n[k + 1] = Block
                         /\ Len(c) - k < BlockLen
                         /\ \A j \in (k + 1)..Len(c) : c[j] = "x"

Smaller(a, b) == IF a < b THEN a ELSE b

\* the text under the header of the k-th entry of contents
UnderHeader(k) == contents[k][4].r

\* C22: every fetch that gave a non-empty body has its entry, and the text
\* under the header of the entry has at most 10,000 characters; for a
\* textual body it has no '<' with a '>' after it and no two white-space
\* characters in a row, and it is the first 10,000 characters (or all) of
\* the body with its tags taken out and its white space collapsed, so the
\* cut comes last; for a structured body it is the first 10,000 characters
\* (or all) of its JSON serialization.
C22_Normalization ==
    LET got == Fetched(furls) IN
    /\ Len(contents) = Len(got)
    /\ \A k \in 1..Len(got) :
         LET d == got[k].out.data
             c == UnderHeader(k)
             whole == IF d.t = "string"
                      THEN CollapseSpace(StripTags(d.lines[1].r))
                      ELSE Stringify(d)
         IN /\ Chars(c) <= ContentCap
            /\ d.t = "string" => ~HasTag(c) /\ ~HasTwoSpaces(c)
            /\ IsStartOf(c, whole)
            /\ Chars(c) = Smaller(Chars(whole), ContentCap)

C22_Witness ==
    /\ fpc = "returned"
    /\ furls = <<"u2", "u1">>
    /\ fouts = <<FetchBody(LongPage(<<"<", "p", ">", Block>> \o Xs(Pad - 1)
                                    \o <<"<", "/", "p", ">">>)),
                 FetchBody(LongDoc)>>
    /\ UnderHeader(1) = <<" ", Block>> \o Xs(Pad - 1)
    /\ Chars(UnderHeader(1)) = ContentCap
    /\ UnderHeader(2) = <<"{", "\"", "k", "\"", ":", "\"", Block>> \o Xs(Pad - 6)
    /\ Chars(UnderHeader(2)) = ContentCap

----------------------------------------------------------------------------
(* C23 *)

\* C23: once the composer has been invoked, its context argument is absent
\* or a non-empty string, never the empty string; it is absent exactly when
\* the search result was absent or the empty string, and otherwise it is
\* the search text or the blob that the fetcher returned.
C23_ContextNeverEmpty ==
    PromptBuilt
    => /\ context # EmptyStr
       /\ context = JNull \/ (context.t = "string" /\ Truthy(context))
       /\ context = JNull <=> (searchResults = JNull \/ searchResults = EmptyStr)
       /\ context # JNull
          => \/ context = searchResults
             \/ /\ fpc = "returned"
                /\ fullContent # JNull
                /\ context = fullContent

C23_Witness ==
    /\ PromptBuilt
    /\ searchResults = EmptyStr
    /\ TransportOk
    /\ context = JNull
    /\ pc = "done"

----------------------------------------------------------------------------
(* C24 *)

\* C24: when every outbound call is settled in the end, a request that was
\* accepted (it entered the search stage) reaches the end with a response of
\* status 200 or 500; a response exists exactly at the end, and a response
\* that was emitted is never replaced by another.
C24_OneResponse ==
    /\ (pc = "search") ~> (pc = "done" /\ response.status \in {200, 500})
    /\ [](pc = "done" <=> response # NoResponse)
    /\ [][response # NoResponse => response' = response]_vars

C24_Witness ==
    /\ pc = "done"
    /\ response.status = 500
    /\ composeOut.kind = "error"
    /\ Len(fouts) = MaxSel
    /\ ~awaiting /\ pending = <<>>

----------------------------------------------------------------------------
(* C25 *)

\* C25: a POST request whose message is missing or empty is answered with
\* status 400, and no outbound call has been issued for it: no call of the
\* search, no model call, no fetch, none completed and none in flight.
C25_RejectedWithoutEffect ==
    (pc = "done" /\ method = "POST" /\ message = "")
    => /\ response.status = 400
       /\ calls = <<>> /\ pending = <<>> /\ ~awaiting
       /\ rpcStep = 0 /\ fpc = "none"
       /\ ~Composed /\ ~Selected

====
